---- MODULE Spec2Model ----
(***************************************************************************)
(* Model of termui's Window (src/src/window.rs): the pending event queue,  *)
(* the remembered last mouse button, the keymap built at construction,     *)
(* and poll_event with the mouse decoder it delegates to.                  *)
(*                                                                         *)
(* Rust enums are records tagged by "tag"; Option<T> is a sequence of      *)
(* length 0 (None) or 1 (Some); Vec and VecDeque are sequences; a char is  *)
(* its scalar value; a &str is a sequence of one-character strings; a      *)
(* mouse state (mmask_t) is the set of the indices of its set bits, so     *)
(* that a & b is the intersection, a & !b the difference, a ^ b the        *)
(* symmetric difference and 1 << n the set {n}.                            *)
(***************************************************************************)
EXTENDS Integers, Sequences, FiniteSets, TLC

VARIABLES
    key_names,          \* the backend's keyname(): extended code -> Option<name>
    key_codes,          \* Window.key_codes
    event_queue,        \* Window.event_queue
    last_mouse_button,  \* Window.last_mouse_button
    pc,                 \* "new": before Window::new; "live"; "panicked": new
                        \* panicked; "dropped"; "drop_panicked": drop panicked
    flush_fails,        \* the flushes of stdout that fail: "start", "stop"
    terminal,           \* what new and drop did to the terminal, in order
    caller,             \* "idle", or "got": poll_event has just returned
    input,              \* what getch returned the last time it was called
    mouse,              \* what getmouse returned in that poll, if it was called
    calls,              \* backend calls made by the latest poll_event, in order
    result,             \* return value of the latest poll_event
    pre_queue,          \* event_queue when the latest poll_event was entered
    pre_last,           \* last_mouse_button when the latest poll_event was entered
    delivered           \* events returned since (and by) the latest getch

vars == <<key_names, key_codes, event_queue, last_mouse_button, pc,
          flush_fails, terminal, caller,
          input, mouse, calls, result, pre_queue, pre_last, delivered>>

----------------------------------------------------------------------------
(* Bounds of the model. *)

\* At most this many bits of a reported mouse state are set at once.
MaxBits == 2
\* Literal characters are drawn from 0 .. MaxChar.
MaxChar == 127
\* Extended codes delivered as Input::Unknown are drawn from -MaxCode .. MaxCode
\* (and the codes the keymap knows).
MaxCode == 6

----------------------------------------------------------------------------
(* Option<T>. *)

None == <<>>
Some(x) == <<x>>

----------------------------------------------------------------------------
(* event/key.rs: Modifier bit flags. *)

ModNone == 0
Ctrl == 1
Shift == 2
Alt == 4

\* a | b on Modifier's bits
RECURSIVE BitOr(_, _)
BitOr(a, b) ==
    IF a = 0 THEN b
    ELSE IF b = 0 THEN a
    ELSE (IF a % 2 = 1 \/ b % 2 = 1 THEN 1 ELSE 0) + 2 * BitOr(a \div 2, b \div 2)

----------------------------------------------------------------------------
(* event/mod.rs, event/key.rs, event/mouse.rs: the event model. *)

KeyChar(c) == [tag |-> "Char", c |-> c]
KeyNamed(k) == [tag |-> k]

EventKey(key, modifier) == [tag |-> "Key", key |-> key, modifier |-> modifier]
EventMouse(pos, event) == [tag |-> "Mouse", pos |-> pos, event |-> event]
EventUnknown(bytes) == [tag |-> "Unknown", bytes |-> bytes]
EventResize == [tag |-> "Resize"]
EventRefresh == [tag |-> "Refresh"]

\* Event::key
key(k) == EventKey(k, ModNone)

MouseButtons == {"Left", "Middle", "Right", "Button4", "Button5", "Other"}

Press(b) == [tag |-> "Press", button |-> b]
Release(b) == [tag |-> "Release", button |-> b]
Hold(b) == [tag |-> "Hold", button |-> b]
WheelUp == [tag |-> "WheelUp"]
WheelDown == [tag |-> "WheelDown"]

\* MouseEvent::button
button(e) ==
    IF e.tag \in {"Press", "Release", "Hold"} THEN Some(e.button) ELSE None

----------------------------------------------------------------------------
(* The backend's mouse masks, as window.rs uses them: five bits per button  *)
(* for buttons 1..5 (the 25 bits kept by (1 << 25) - 1), then the modifier  *)
(* flags and the position report flag.                                      *)

BUTTON_RELEASED == {0}
BUTTON_PRESSED == {1}
BUTTON_CLICKED == {2}
BUTTON_DOUBLE_CLICKED == {3}
BUTTON_TRIPLE_CLICKED == {4}

\* m << ((b - 1) * 5)
MOUSE_MASK(b, m) == {i + (b - 1) * 5 : i \in m}

BUTTON_CTRL == MOUSE_MASK(6, {0})
BUTTON_SHIFT == MOUSE_MASK(6, {1})
BUTTON_ALT == MOUSE_MASK(6, {2})
REPORT_MOUSE_POSITION == MOUSE_MASK(6, {3})

\* u32::trailing_zeros of a non-zero state: the index of its lowest set bit
trailing_zeros(x) == CHOOSE i \in x : \A j \in x : i <= j

\* (1 << 25) - 1
BARE_EVENT_MASK == 0 .. 24

----------------------------------------------------------------------------
\* split_i32 with the bytes in the opposite (big-endian) order
split_i32_big_endian(code) == [i \in 1..4 |-> (code \div 2^(8 * (4 - i))) % 256]

\* split_i32: (0..4).map(|i| ((code >> (8 * i)) & 0xFF) as u8).collect()
split_i32(code) == [i \in 1..4 |-> (code \div 2^(8 * (i - 1))) % 256]

BUTTON1_RELEASED == MOUSE_MASK(1, BUTTON_RELEASED)
BUTTON1_PRESSED == MOUSE_MASK(1, BUTTON_PRESSED)
BUTTON1_CLICKED == MOUSE_MASK(1, BUTTON_CLICKED)
BUTTON1_DOUBLE_CLICKED == MOUSE_MASK(1, BUTTON_DOUBLE_CLICKED)
BUTTON1_TRIPLE_CLICKED == MOUSE_MASK(1, BUTTON_TRIPLE_CLICKED)

BUTTON2_RELEASED == MOUSE_MASK(2, BUTTON_RELEASED)
BUTTON2_PRESSED == MOUSE_MASK(2, BUTTON_PRESSED)
BUTTON2_CLICKED == MOUSE_MASK(2, BUTTON_CLICKED)
BUTTON2_DOUBLE_CLICKED == MOUSE_MASK(2, BUTTON_DOUBLE_CLICKED)
BUTTON2_TRIPLE_CLICKED == MOUSE_MASK(2, BUTTON_TRIPLE_CLICKED)

BUTTON3_RELEASED == MOUSE_MASK(3, BUTTON_RELEASED)
BUTTON3_PRESSED == MOUSE_MASK(3, BUTTON_PRESSED)
BUTTON3_CLICKED == MOUSE_MASK(3, BUTTON_CLICKED)
BUTTON3_DOUBLE_CLICKED == MOUSE_MASK(3, BUTTON_DOUBLE_CLICKED)
BUTTON3_TRIPLE_CLICKED == MOUSE_MASK(3, BUTTON_TRIPLE_CLICKED)

BUTTON4_RELEASED == MOUSE_MASK(4, BUTTON_RELEASED)
BUTTON4_PRESSED == MOUSE_MASK(4, BUTTON_PRESSED)
BUTTON4_CLICKED == MOUSE_MASK(4, BUTTON_CLICKED)
BUTTON4_DOUBLE_CLICKED == MOUSE_MASK(4, BUTTON_DOUBLE_CLICKED)
BUTTON4_TRIPLE_CLICKED == MOUSE_MASK(4, BUTTON_TRIPLE_CLICKED)

BUTTON5_RELEASED == MOUSE_MASK(5, BUTTON_RELEASED)
BUTTON5_PRESSED == MOUSE_MASK(5, BUTTON_PRESSED)
BUTTON5_CLICKED == MOUSE_MASK(5, BUTTON_CLICKED)
BUTTON5_DOUBLE_CLICKED == MOUSE_MASK(5, BUTTON_DOUBLE_CLICKED)
BUTTON5_TRIPLE_CLICKED == MOUSE_MASK(5, BUTTON_TRIPLE_CLICKED)

----------------------------------------------------------------------------
(* window.rs: the mouse decoder. *)

get_mouse_button(bare_event) ==
    CASE bare_event \in {BUTTON1_RELEASED, BUTTON1_PRESSED, BUTTON1_CLICKED,
                         BUTTON1_DOUBLE_CLICKED, BUTTON1_TRIPLE_CLICKED} -> "Left"
      [] bare_event \in {BUTTON2_RELEASED, BUTTON2_PRESSED, BUTTON2_CLICKED,
                         BUTTON2_DOUBLE_CLICKED, BUTTON2_TRIPLE_CLICKED} -> "Middle"
      [] bare_event \in {BUTTON3_RELEASED, BUTTON3_PRESSED, BUTTON3_CLICKED,
                         BUTTON3_DOUBLE_CLICKED, BUTTON3_TRIPLE_CLICKED} -> "Right"
      [] bare_event \in {BUTTON4_RELEASED, BUTTON4_PRESSED, BUTTON4_CLICKED,
                         BUTTON4_DOUBLE_CLICKED, BUTTON4_TRIPLE_CLICKED} -> "Button4"
      [] bare_event \in {BUTTON5_RELEASED, BUTTON5_PRESSED, BUTTON5_CLICKED,
                         BUTTON5_DOUBLE_CLICKED, BUTTON5_TRIPLE_CLICKED} -> "Button5"
      [] OTHER -> "Other"

\* clicks with the release ahead of the press
RECURSIVE clicks_release_first(_, _)
clicks_release_first(n, b) ==
    IF n = 0 THEN <<>>
    ELSE <<Release(b), Press(b)>> \o clicks_release_first(n - 1, b)

\* The press/release pair of a click, n times (the bodies of `for _ in 0..n`).
RECURSIVE clicks(_, _)
clicks(n, b) ==
    IF n = 0 THEN <<>> ELSE <<Press(b), Release(b)>> \o clicks(n - 1, b)

\* The events on_mouse_event hands to its callback f, in call order.
on_mouse_event(bare_event) ==
    LET b == get_mouse_button(bare_event) IN
    CASE bare_event = BUTTON4_PRESSED -> <<WheelUp>>
      [] bare_event = BUTTON5_PRESSED -> <<WheelDown>>
      [] bare_event \in {BUTTON1_RELEASED, BUTTON2_RELEASED, BUTTON3_RELEASED,
                         BUTTON4_RELEASED, BUTTON5_RELEASED} -> <<Release(b)>>
      [] bare_event \in {BUTTON1_PRESSED, BUTTON2_PRESSED, BUTTON3_PRESSED} ->
            <<Press(b)>>
      [] bare_event \in {BUTTON1_CLICKED, BUTTON2_CLICKED, BUTTON3_CLICKED,
                         BUTTON4_CLICKED, BUTTON5_CLICKED} ->
            <<Press(b), Release(b)>>
      [] bare_event \in {BUTTON1_DOUBLE_CLICKED, BUTTON2_DOUBLE_CLICKED,
                         BUTTON3_DOUBLE_CLICKED, BUTTON4_DOUBLE_CLICKED,
                         BUTTON5_DOUBLE_CLICKED} -> clicks(2, b)
      [] bare_event \in {BUTTON1_TRIPLE_CLICKED, BUTTON2_TRIPLE_CLICKED,
                         BUTTON3_TRIPLE_CLICKED, BUTTON4_TRIPLE_CLICKED,
                         BUTTON5_TRIPLE_CLICKED} -> clicks(3, b)
      [] OTHER -> <<>>

\* make_event with the coordinates the other way round
make_event_yx(mevent, event) == EventMouse(<<mevent.y, mevent.x>>, event)

\* make_event: the closure of parse_mouse_event over mevent. The coordinates
\* the model draws are not negative, where `as usize` changes nothing.
make_event(mevent, event) == EventMouse(<<mevent.x, mevent.y>>, event)

\* mouse_callback queueing the first event as well as keeping it
mouse_callback_queues_first(mevent, st, e) ==
    [event |-> IF st.event = None THEN Some(e) ELSE st.event,
     queue |-> Append(st.queue, EventMouse(<<mevent.x, mevent.y>>, e))]

\* mouse_callback with push_front in place of push_back
mouse_callback_push_front(mevent, st, e) ==
    IF st.event = None
    THEN [st EXCEPT !.event = Some(e)]
    ELSE [st EXCEPT !.queue = <<EventMouse(<<mevent.x, mevent.y>>, e)>> \o st.queue]

\* The closure parse_mouse_event passes to on_mouse_event; st holds the local
\* `event` and self.event_queue.
mouse_callback(mevent, st, e) ==
    IF st.event = None
    THEN [st EXCEPT !.event = Some(e)]
    ELSE [st EXCEPT !.queue = Append(st.queue, make_event(mevent, e))]

RECURSIVE mouse_callbacks(_, _, _)
mouse_callbacks(mevent, st, es) ==
    IF es = <<>> THEN st
    ELSE mouse_callbacks(mevent, mouse_callback(mevent, st, Head(es)), Tail(es))

\* while bare_event != 0 { ... } of parse_mouse_event
RECURSIVE mouse_loop(_, _, _)
mouse_loop(mevent, bare_event, st) ==
    IF bare_event = {} THEN st
    ELSE LET single_event == {trailing_zeros(bare_event)} IN
         mouse_loop(mevent,
                    (bare_event \ single_event) \cup (single_event \ bare_event),
                    mouse_callbacks(mevent, st, on_mouse_event(single_event)))

\* hold_event falling back on a Hold of the left button
hold_event_default_left(mevent, last) ==
    EventMouse(<<mevent.x, mevent.y>>,
               Hold(IF last # None THEN last[1] ELSE "Left"))

\* self.last_mouse_button.map(MouseEvent::Hold).map(&make_event)
\*     .unwrap_or_else(|| Event::Unknown(Vec::new()))
hold_event(mevent, last) ==
    IF last # None THEN make_event(mevent, Hold(last[1])) ELSE EventUnknown(<<>>)

\* the event for a failed getmouse, with an empty payload
mouse_error_event_empty(code) ==
    EventUnknown(<<>>)

\* Err(code) => return Event::Unknown(split_i32(code))
mouse_error_event(code) ==
    EventUnknown(split_i32(code))

\* the modifier strip leaving BUTTON_CTRL in the state
strip_modifiers_keeps_ctrl(bstate) ==
    bstate \ (BUTTON_SHIFT \cup BUTTON_ALT)

\* let bstate = mevent.bstate & !(BUTTON_SHIFT | BUTTON_ALT | BUTTON_CTRL)
strip_modifiers(bstate) ==
    bstate \ (BUTTON_CTRL \cup BUTTON_SHIFT \cup BUTTON_ALT)

\* the position-report test looking at the report bit alone
is_position_report_by_bit(bstate) ==
    REPORT_MOUSE_POSITION \subseteq bstate

\* if bstate == curses::REPORT_MOUSE_POSITION
is_position_report(bstate) ==
    bstate = REPORT_MOUSE_POSITION

\* the button memory forgetting the button once it is released
record_button_clears_on_release(last, event) ==
    IF event.tag = "Release" THEN None
    ELSE IF button(event) # None THEN button(event) ELSE last

\* if let Some(button) = event.button() { self.last_mouse_button = Some(button) }
record_button(last, event) ==
    IF button(event) # None THEN button(event) ELSE last

\* Window::parse_mouse_event, given what getmouse returned: the event it
\* returns and the queue and last button it leaves.
parse_mouse_event(queue, last, gm) ==
    IF ~gm.ok
    THEN [ev |-> mouse_error_event(gm.code), queue |-> queue, last |-> last]
    ELSE
      LET bstate == strip_modifiers(gm.bstate)
      IN
      IF is_position_report(bstate)
      THEN [ev |-> hold_event(gm, last), queue |-> queue, last |-> last]
      ELSE
        LET bare_event == bstate \cap BARE_EVENT_MASK
            st == mouse_loop(gm, bare_event, [event |-> None, queue |-> queue])
        IN
        IF st.event # None
        THEN [ev |-> make_event(gm, st.event[1]),
              queue |-> st.queue,
              last |-> record_button(last, st.event[1])]
        ELSE [ev |-> EventUnknown(<<>>), queue |-> st.queue, last |-> last]

----------------------------------------------------------------------------
(* window.rs: init_keymap. *)

\* key_names of init_keymap: mnemonic -> Key
mnemonic_keys ==
    (<<"D", "C">> :> KeyNamed("Delete")) @@
    (<<"D", "N">> :> KeyNamed("Down")) @@
    (<<"E", "N", "D">> :> KeyNamed("End")) @@
    (<<"H", "O", "M">> :> KeyNamed("Home")) @@
    (<<"I", "C">> :> KeyNamed("Insert")) @@
    (<<"L", "F", "T">> :> KeyNamed("Left")) @@
    (<<"N", "X", "T">> :> KeyNamed("PageDown")) @@
    (<<"P", "R", "V">> :> KeyNamed("PageUp")) @@
    (<<"R", "I", "T">> :> KeyNamed("Right")) @@
    (<<"U", "P">> :> KeyNamed("Up"))

\* match modifier { "3" => ..., _ => continue }
digit_modifier(modifier) ==
    CASE modifier = <<"3">> -> Some(Alt)
      [] modifier = <<"4">> -> Some(BitOr(Shift, Alt))
      [] modifier = <<"5">> -> Some(Ctrl)
      [] modifier = <<"6">> -> Some(BitOr(Ctrl, Shift))
      [] modifier = <<"7">> -> Some(BitOr(BitOr(Ctrl, Shift), Alt))
      [] OTHER -> None

\* curses::keyname(code), over the backend's table of names
keyname(names, code) ==
    IF code \in DOMAIN names THEN Some(names[code]) ELSE None

\* One pass of the body of `for code in 512..1024`: "continue" leaves the map
\* as it is, "panic" is the failed split of a name.
keymap_step(names, code, map) ==
    LET kn == keyname(names, code) IN
    IF kn = None THEN [panic |-> FALSE, map |-> map]
    ELSE
      LET name == kn[1] IN
      IF ~(name # <<>> /\ name[1] = "k") THEN [panic |-> FALSE, map |-> map]
      ELSE
        \* name[1..].split_at(name.len() - 2): the subtraction is of usize, and
        \* with a one-character name it overflows (a panic when overflow is
        \* checked, and otherwise a split index past the end: a panic too)
        IF Len(name) - 2 < 0 THEN [panic |-> TRUE, map |-> map]
        ELSE
          LET rest == Tail(name)
              mid == Len(name) - 2
              key_name == SubSeq(rest, 1, mid)
              modifier == SubSeq(rest, mid + 1, Len(rest))
          IN
          IF key_name \notin DOMAIN mnemonic_keys THEN [panic |-> FALSE, map |-> map]
          ELSE IF digit_modifier(modifier) = None THEN [panic |-> FALSE, map |-> map]
          ELSE [panic |-> FALSE,
                map |-> (code :> EventKey(mnemonic_keys[key_name],
                                          digit_modifier(modifier)[1])) @@ map]

KEYMAP_FIRST == 512
KEYMAP_END == 1024

\* for code in first..end { ... }: the passes in increasing order of code,
\* stopping at a panic. A range of several codes is run as its lower half and
\* then its upper half, which is the same sequence of passes.
RECURSIVE keymap_loop(_, _, _, _)
keymap_loop(names, first, end, map) ==
    IF first >= end THEN [panic |-> FALSE, map |-> map]
    ELSE IF first + 1 = end THEN keymap_step(names, first, map)
    ELSE LET half == first + (end - first) \div 2
             r == keymap_loop(names, first, half, map)
         IN IF r.panic THEN r ELSE keymap_loop(names, half, end, r.map)

init_keymap(names) == keymap_loop(names, KEYMAP_FIRST, KEYMAP_END, <<>>)

----------------------------------------------------------------------------
(* window.rs: Window::poll_event. *)

Character(c) == [tag |-> "Character", c |-> c]
Unknown(code) == [tag |-> "Unknown", code |-> code]
Named(t) == [tag |-> t]

\* The arms of poll_event's match that name one backend key each (window.rs
\* lines 103-170).
named_keys ==
    ("KeyUp" :> key(KeyNamed("Up"))) @@
    ("KeyDown" :> key(KeyNamed("Down"))) @@
    ("KeyLeft" :> key(KeyNamed("Left"))) @@
    ("KeyRight" :> key(KeyNamed("Right"))) @@
    ("KeySR" :> EventKey(KeyNamed("Up"), Shift)) @@
    ("KeySF" :> EventKey(KeyNamed("Down"), Shift)) @@
    ("KeySLeft" :> EventKey(KeyNamed("Left"), Shift)) @@
    ("KeySRight" :> EventKey(KeyNamed("Right"), Shift)) @@
    ("KeyBreak" :> key(KeyNamed("Break"))) @@
    ("KeyIC" :> key(KeyNamed("Insert"))) @@
    ("KeyDC" :> key(KeyNamed("Delete"))) @@
    ("KeyHome" :> key(KeyNamed("Home"))) @@
    ("KeyEnd" :> key(KeyNamed("End"))) @@
    ("KeyPPage" :> key(KeyNamed("PageUp"))) @@
    ("KeyNPage" :> key(KeyNamed("PageDown"))) @@
    ("KeySIC" :> EventKey(KeyNamed("Insert"), Shift)) @@
    ("KeySDC" :> EventKey(KeyNamed("Delete"), Shift)) @@
    ("KeySHome" :> EventKey(KeyNamed("Home"), Shift)) @@
    ("KeySEnd" :> EventKey(KeyNamed("End"), Shift)) @@
    ("KeySPrevious" :> EventKey(KeyNamed("PageUp"), Shift)) @@
    ("KeySNext" :> EventKey(KeyNamed("PageDown"), Shift)) @@
    ("KeyF0" :> key(KeyNamed("F0"))) @@
    ("KeyF1" :> key(KeyNamed("F1"))) @@
    ("KeyF2" :> key(KeyNamed("F2"))) @@
    ("KeyF3" :> key(KeyNamed("F3"))) @@
    ("KeyF4" :> key(KeyNamed("F4"))) @@
    ("KeyF5" :> key(KeyNamed("F5"))) @@
    ("KeyF6" :> key(KeyNamed("F6"))) @@
    ("KeyF7" :> key(KeyNamed("F7"))) @@
    ("KeyF8" :> key(KeyNamed("F8"))) @@
    ("KeyF9" :> key(KeyNamed("F9"))) @@
    ("KeyF10" :> key(KeyNamed("F10"))) @@
    ("KeyF11" :> key(KeyNamed("F11"))) @@
    ("KeyF12" :> key(KeyNamed("F12")))

\* Input::Character(c) if (c as u32) <= 26
is_ctrl_char(c) == c <= 26

\* ctrl_char without the - 1
ctrl_char_from_a(c) == (97 + (c % 256)) % 256

\* Key::Char((b'a' - 1 + c as u8) as char), in u8 arithmetic
ctrl_char(c) == (97 - 1 + (c % 256)) % 256

\* the keymap looked up under the code itself
keymap_index_raw(code) == code

\* self.key_codes.get(&(code + 256 + 48))
keymap_index(code) == code + 256 + 48

\* The arms of poll_event's match that touch neither the queue nor the last
\* button, in the order of the match.
decode_input(keys, inp) ==
    IF inp = Character(10) \/ inp = Named("KeyEnter") THEN key(KeyNamed("Enter"))
    ELSE IF inp = Character(127) \/ inp = Character(8) \/ inp = Named("KeyBackspace")
         THEN key(KeyNamed("Backspace"))
    ELSE IF inp = Character(9) THEN key(KeyNamed("Tab"))
    ELSE IF inp = Character(27) THEN key(KeyNamed("Escape"))
    ELSE IF inp = Named("KeyBTab") \/ inp = Named("KeySTab")
         THEN EventKey(KeyNamed("Tab"), Shift)
    ELSE IF inp = Named("KeyCTab") THEN EventKey(KeyNamed("Tab"), Ctrl)
    ELSE IF inp = Named("KeyCATab") THEN EventKey(KeyNamed("Tab"), BitOr(Ctrl, Alt))
    ELSE IF inp.tag = "Character" /\ is_ctrl_char(inp.c)
         THEN EventKey(KeyChar(ctrl_char(inp.c)), Ctrl)
    ELSE IF inp.tag = "Character" THEN key(KeyChar(inp.c))
    ELSE IF inp.tag = "Unknown"
         THEN IF keymap_index(inp.code) \in DOMAIN keys
              THEN keys[keymap_index(inp.code)]
              ELSE EventUnknown(split_i32(inp.code))
    ELSE IF inp.tag \in DOMAIN named_keys THEN named_keys[inp.tag]
    ELSE EventRefresh

\* the resize arm returning Event::Resize without resizing the backend
on_resize_unapplied(queue, last) ==
    [ev |-> Some(EventResize), queue |-> queue, last |-> last,
     calls |-> <<"getch">>]

\* Input::KeyResize => { curses::resize_term(0, 0); Event::Resize }
on_resize(queue, last) ==
    [ev |-> Some(EventResize), queue |-> queue, last |-> last,
     calls |-> <<"getch", "resize_term">>]

\* poll_input returning None for an extended code the keymap does not know
poll_input_drops_unknown(keys, queue, last, gc, gm) ==
    IF gc = None
    THEN [ev |-> None, queue |-> queue, last |-> last, calls |-> <<"getch">>]
    ELSE
      LET inp == gc[1] IN
      IF inp = Named("KeyResize")
      THEN [ev |-> Some(EventResize), queue |-> queue, last |-> last,
            calls |-> <<"getch", "resize_term">>]
      ELSE IF inp = Named("KeyMouse")
      THEN LET r == parse_mouse_event(queue, last, gm) IN
           [ev |-> Some(r.ev), queue |-> r.queue, last |-> r.last,
            calls |-> <<"getch", "getmouse">>]
      ELSE IF inp.tag = "Unknown" /\ keymap_index(inp.code) \notin DOMAIN keys
      THEN [ev |-> None, queue |-> queue, last |-> last, calls |-> <<"getch">>]
      ELSE [ev |-> Some(decode_input(keys, inp)), queue |-> queue, last |-> last,
            calls |-> <<"getch">>]

\* The match of poll_event on what getch returned (gc), where getmouse would
\* return gm: the value returned, the queue and last button left, and the
\* backend calls made.
poll_input(keys, queue, last, gc, gm) ==
    IF gc = None
    THEN [ev |-> None, queue |-> queue, last |-> last, calls |-> <<"getch">>]
    ELSE
      LET inp == gc[1] IN
      IF inp = Named("KeyResize")
      THEN on_resize(queue, last)
      ELSE IF inp = Named("KeyMouse")
      THEN LET r == parse_mouse_event(queue, last, gm) IN
           [ev |-> Some(r.ev), queue |-> r.queue, last |-> r.last,
            calls |-> <<"getch", "getmouse">>]
      ELSE [ev |-> Some(decode_input(keys, inp)), queue |-> queue, last |-> last,
            calls |-> <<"getch">>]

\* poll_event with pop_back in place of pop_front
poll_event_pop_back(keys, queue, last, gc, gm) ==
    IF queue # <<>>
    THEN [ev |-> Some(queue[Len(queue)]),
          queue |-> SubSeq(queue, 1, Len(queue) - 1), last |-> last,
          calls |-> <<>>]
    ELSE poll_input(keys, queue, last, gc, gm)

\* Window::poll_event on a window with this keymap, queue and last button:
\* the front of the queue if it has one, and otherwise the match on getch.
poll_event(keys, queue, last, gc, gm) ==
    IF queue # <<>>
    THEN [ev |-> Some(Head(queue)), queue |-> Tail(queue), last |-> last,
          calls |-> <<>>]
    ELSE poll_input(keys, queue, last, gc, gm)

----------------------------------------------------------------------------
(* The backend: what getch, getmouse and keyname can answer. *)

MinI32 == -2147483647 - 1
MaxI32 == 2147483647

\* Names the backend gives extended key codes in the polling specification.
TermNames ==
    (511 :> <<"k", "E", "N", "D", "5">>) @@
    (512 :> <<"k", "D", "C", "3">>) @@
    (513 :> <<"k", "R", "I", "T", "5">>) @@
    (514 :> <<"k", "X", "Y", "Z", "3">>) @@
    (515 :> <<"k", "U", "P">>) @@
    (516 :> <<"k", "I", "C", "2">>) @@
    (517 :> <<"F", "1", "3">>) @@
    (1023 :> <<"k", "N", "X", "T", "7">>) @@
    (1024 :> <<"k", "L", "F", "T", "6">>)

Chars == 0 .. MaxChar

OtherInputs == {"KeyF13", "KeyF15", "KeyDL"}

NamedInputs ==
    DOMAIN named_keys \cup OtherInputs \cup
    {"KeyEnter", "KeyBackspace", "KeyBTab", "KeySTab", "KeyCTab", "KeyCATab",
     "KeyResize", "KeyMouse"}

\* Extended codes are small: the backend forms them from its key codes, so
\* code + 256 + 48 stays inside i32.
ExtCodes ==
    (-MaxCode .. MaxCode) \cup DOMAIN TermNames
    \cup {k - 256 - 48 : k \in DOMAIN TermNames}

Inputs ==
    {Character(c) : c \in Chars} \cup {Named(t) : t \in NamedInputs}
    \cup {Unknown(code) : code \in ExtCodes}

GetchResults == {None} \cup {Some(i) : i \in Inputs}

\* Mouse states of at most n set bits, among the bits 0 .. 30.
RECURSIVE masks(_)
masks(n) ==
    IF n = 0 THEN {{}}
    ELSE LET less == masks(n - 1) IN
         less \cup {m \cup {i} : m \in less, i \in 0 .. 30}

BStates == masks(MaxBits)

Coords == {<<0, 0>>, <<3, 7>>}

I32Samples ==
    {MinI32, MaxI32}
    \cup {s * 2^k + d : s \in {-1, 1}, k \in {0, 8, 16, 24, 30}, d \in {-1, 0, 1}}

MouseOk(bstate, x, y) == [ok |-> TRUE, bstate |-> bstate, x |-> x, y |-> y]
MouseErr(code) == [ok |-> FALSE, code |-> code]

GetmouseResults ==
    {MouseOk(b, p[1], p[2]) : b \in BStates, p \in Coords}
    \cup {MouseErr(code) : code \in I32Samples \ {0}}

----------------------------------------------------------------------------
(* The state machine. *)

Init ==
    /\ key_names = TermNames
    /\ key_codes = <<>>
    /\ event_queue = <<>>
    /\ last_mouse_button = None
    /\ pc = "new"
    /\ flush_fails \in SUBSET {"start", "stop"}
    /\ terminal = <<>>
    /\ caller = "idle"
    /\ input = None
    /\ mouse = None
    /\ calls = <<>>
    /\ result = None
    /\ pre_queue = <<>>
    /\ pre_last = None
    /\ delivered = <<>>

\* Window::new up to the flush of the mouse-reporting sequence: the backend
\* is acquired and set up, the sequence is printed and stdout is flushed.
new_setup(flush_ok) ==
    <<"initscr", "keypad", "nodelay", "noecho", "cbreak", "start_color",
      "use_default_colors", "curs_set", "mouseinterval", "mousemask",
      "print ?1002h">> \o (IF flush_ok THEN <<"flush">> ELSE <<"flush failed">>)

\* Window::new: expect() panics when the flush fails, and init_keymap() may
\* panic while the struct is built; in both cases no Window exists, so no
\* drop runs.
window_new(names, flush_ok) ==
    IF ~flush_ok
    THEN [panic |-> TRUE, terminal |-> new_setup(flush_ok), map |-> <<>>]
    ELSE LET r == init_keymap(names) IN
         [panic |-> r.panic, terminal |-> new_setup(flush_ok), map |-> r.map]

\* Drop for Window: expect() panics when the flush fails, before endwin.
window_drop(flush_ok) ==
    IF ~flush_ok
    THEN [panic |-> TRUE, terminal |-> <<"print ?1002l", "flush failed">>]
    ELSE [panic |-> FALSE, terminal |-> <<"print ?1002l", "flush", "endwin">>]

\* Window::new: event_queue and last_mouse_button start empty and key_codes
\* is init_keymap().
New ==
    /\ pc = "new"
    /\ LET r == window_new(key_names, "start" \notin flush_fails) IN
       /\ pc' = IF r.panic THEN "panicked" ELSE "live"
       /\ key_codes' = r.map
       /\ terminal' = terminal \o r.terminal
    /\ event_queue' = <<>>
    /\ last_mouse_button' = None
    /\ UNCHANGED <<key_names, flush_fails, caller, input, mouse, calls, result,
                   pre_queue, pre_last, delivered>>

\* The Window goes out of scope between two polls.
Drop ==
    /\ pc = "live"
    /\ caller = "idle"
    /\ LET r == window_drop("stop" \notin flush_fails) IN
       /\ pc' = IF r.panic THEN "drop_panicked" ELSE "dropped"
       /\ terminal' = terminal \o r.terminal
    /\ UNCHANGED <<key_names, key_codes, event_queue, last_mouse_button,
                   flush_fails, caller, input, mouse, calls, result,
                   pre_queue, pre_last, delivered>>

Called(cs, c) == \E i \in 1..Len(cs) : cs[i] = c

\* The backend's answers are drawn only when the call asks for them: which
\* calls poll_event makes does not depend on what a call it does not make
\* would have answered.
NoAnswer == MouseErr(-1)

GetchDrawn ==
    IF Called(poll_event(key_codes, event_queue, last_mouse_button,
                         None, NoAnswer).calls, "getch")
    THEN GetchResults ELSE {None}

GetmouseDrawn(gc) ==
    IF Called(poll_event(key_codes, event_queue, last_mouse_button,
                         gc, NoAnswer).calls, "getmouse")
    THEN GetmouseResults ELSE {NoAnswer}

\* One call of Window::poll_event.
PollEvent ==
    /\ pc = "live"
    /\ caller = "idle"
    /\ \E gc \in GetchDrawn :
         \E gm \in GetmouseDrawn(gc) :
            LET r == poll_event(key_codes, event_queue, last_mouse_button, gc, gm)
            IN
            /\ event_queue' = r.queue
            /\ last_mouse_button' = r.last
            /\ result' = r.ev
            /\ calls' = r.calls
            /\ input' = IF Called(r.calls, "getch") THEN gc ELSE input
            /\ mouse' = IF Called(r.calls, "getmouse") THEN Some(gm)
                        ELSE IF Called(r.calls, "getch") THEN None
                        ELSE mouse
            /\ delivered' = IF Called(r.calls, "getch")
                            THEN r.ev
                            ELSE delivered \o r.ev
    /\ caller' = "got"
    /\ pre_queue' = event_queue
    /\ pre_last' = last_mouse_button
    /\ UNCHANGED <<key_names, key_codes, pc, flush_fails, terminal>>

\* The caller takes the returned value and comes back for the next poll (the
\* loop of examples/potion_seller.rs). What the model remembers of the call
\* is dropped, and with it what it remembers of the raw input once none of
\* its events is left in the queue.
Handle ==
    /\ pc = "live"
    /\ caller = "got"
    /\ caller' = "idle"
    /\ result' = None
    /\ calls' = <<>>
    /\ pre_queue' = <<>>
    /\ pre_last' = None
    /\ IF event_queue = <<>>
       THEN input' = None /\ mouse' = None /\ delivered' = <<>>
       ELSE UNCHANGED <<input, mouse, delivered>>
    /\ UNCHANGED <<key_names, key_codes, event_queue, last_mouse_button, pc,
                   flush_fails, terminal>>

Next == New \/ PollEvent \/ Handle \/ Drop

Spec == Init /\ [][Next]_vars

----------------------------------------------------------------------------
(* Keymap construction over the names a backend may report: the same        *)
(* machine, started with any of these tables and followed up to the end of  *)
(* init_keymap.                                                             *)

Markers == {<<>>, <<"k">>, <<"x">>}

Mnemonics ==
    DOMAIN mnemonic_keys
    \cup {<<>>, <<"X", "Y", "Z">>, <<"R", "I">>, <<"r", "i", "t">>,
          <<"R", "I", "T", "E">>}

Suffixes ==
    {<<>>, <<"5", "5">>, <<"k">>}
    \cup {<<d>> : d \in {"2", "3", "4", "5", "6", "7", "8"}}

Names == {m \o b \o d : m \in Markers, b \in Mnemonics, d \in Suffixes}

SecondNames ==
    {<<"k", "R", "I", "T", "5">>, <<"k", "X", "Y", "Z", "3">>, <<"k">>}

NamedCodes ==
    {KEYMAP_FIRST - 1, KEYMAP_FIRST, KEYMAP_FIRST + 1, KEYMAP_END - 1, KEYMAP_END}

\* No name at all, one named code, or two.
NameTables ==
    {<<>>}
    \cup {c :> n : c \in NamedCodes, n \in Names}
    \cup {(p[1] :> n) @@ (p[2] :> m) :
            p \in {q \in NamedCodes \X NamedCodes : q[1] # q[2]},
            n \in Names, m \in SecondNames}

InitKeymap ==
    /\ key_names \in NameTables
    /\ key_codes = <<>>
    /\ event_queue = <<>>
    /\ last_mouse_button = None
    /\ pc = "new"
    /\ flush_fails = {}
    /\ terminal = <<>>
    /\ caller = "idle"
    /\ input = None
    /\ mouse = None
    /\ calls = <<>>
    /\ result = None
    /\ pre_queue = <<>>
    /\ pre_last = None
    /\ delivered = <<>>

SpecKeymap == InitKeymap /\ [][New]_vars

----------------------------------------------------------------------------
(* What the properties below speak of. *)

\* A call of poll_event has just returned.
Returned == pc = "live" /\ caller = "got"

\* That call read the backend, and what it read was a mouse signal whose
\* state query succeeded.
ReadInput == Returned /\ Called(calls, "getch")
ReadMouse == ReadInput /\ mouse # None /\ mouse[1].ok

\* The mouse signal whose events are being delivered, if any.
Signal == mouse[1]
HasSignal == pc = "live" /\ mouse # None /\ mouse[1].ok
ModifierBits == BUTTON_CTRL \cup BUTTON_SHIFT \cup BUTTON_ALT
Stripped(bstate) == bstate \ ModifierBits
At(sig, e) == [tag |-> "Mouse", pos |-> <<sig.x, sig.y>>, event |-> e]

ButtonNames == <<"Left", "Middle", "Right", "Button4", "Button5">>

\* The events one recognised bit stands for: bit 5 * (b - 1) + k is, for
\* button b, released (k = 0), pressed (1), clicked (2), double-clicked (3),
\* triple-clicked (4); a press of button 4 or 5 is the wheel.
BitExpansion(i) ==
    LET b == (i \div 5) + 1
        k == i % 5
        P == [tag |-> "Press", button |-> ButtonNames[b]]
        R == [tag |-> "Release", button |-> ButtonNames[b]]
    IN CASE k = 0 -> <<R>>
         [] k = 1 /\ b <= 3 -> <<P>>
         [] k = 1 /\ b = 4 -> <<[tag |-> "WheelUp"]>>
         [] k = 1 /\ b = 5 -> <<[tag |-> "WheelDown"]>>
         [] k = 2 -> <<P, R>>
         [] k = 3 -> <<P, R, P, R>>
         [] k = 4 -> <<P, R, P, R, P, R>>

RECURSIVE Expansion(_)
Expansion(bits) ==
    IF bits = {} THEN <<>>
    ELSE LET i == CHOOSE m \in bits : \A n \in bits : m <= n
         IN BitExpansion(i) \o Expansion(bits \ {i})

RecognisedBits(bstate) == {i \in bstate : i <= 24}

\* C1: a poll made while the queue holds events returns the oldest of them,
\* removes exactly that one, makes no backend call and leaves the last mouse
\* button alone; a poll that calls the backend found the queue empty.
C1_QueueDrainedFirst ==
    Returned =>
        /\ pre_queue # <<>> =>
              /\ result = <<pre_queue[1]>>
              /\ event_queue = SubSeq(pre_queue, 2, Len(pre_queue))
              /\ calls = <<>>
              /\ last_mouse_button = pre_last
        /\ calls # <<>> => pre_queue = <<>>

C1_Witness == Returned /\ Len(pre_queue) >= 2 /\ pre_last # None

\* C2: for a mouse state with several recognised bits, the events returned by
\* the decoding poll and the polls after it are the expansions of its bits in
\* increasing bit order: the first by the decoding poll alone, each other one
\* once and in order from the queue, and with the queue empty again the next
\* poll asks the backend.
C2_DecompositionOrder ==
    /\ HasSignal /\ Cardinality(RecognisedBits(Signal.bstate)) >= 2 =>
         LET want == Expansion(RecognisedBits(Signal.bstate)) IN
         /\ Len(delivered) >= 1
         /\ delivered \o event_queue = [i \in 1..Len(want) |-> At(Signal, want[i])]
         /\ ReadInput => Len(delivered) = 1
         /\ Returned => result = <<delivered[Len(delivered)]>>
    /\ Returned /\ pre_queue = <<>> => Called(calls, "getch")

C2_Witness ==
    /\ Returned /\ HasSignal
    /\ Cardinality(RecognisedBits(Signal.bstate)) >= 2
    /\ calls = <<>>
    /\ event_queue = <<>>
    /\ Len(delivered) >= 4

\* C3: a clicked, double-clicked or triple-clicked bit of button b alone is
\* Press(b), Release(b) once, twice or three times at the reported position,
\* the first returned by the decoding poll and the others queued in order; a
\* double click of button 1 is Press(Left), Release(Left), Press(Left),
\* Release(Left).
C3_ClickExpansion ==
    /\ \A b \in 1..5 : \A n \in 1..3 :
         ReadMouse /\ Stripped(Signal.bstate) = {5 * (b - 1) + 1 + n} =>
            LET P == At(Signal, [tag |-> "Press", button |-> ButtonNames[b]])
                R == At(Signal, [tag |-> "Release", button |-> ButtonNames[b]])
            IN
            /\ result = <<P>>
            /\ Len(event_queue) = 2 * n - 1
            /\ \A j \in 1..(2 * n - 1) :
                  event_queue[j] = IF j % 2 = 1 THEN R ELSE P
    /\ ReadMouse /\ Stripped(Signal.bstate) = {3} =>
         /\ result = <<At(Signal, [tag |-> "Press", button |-> "Left"])>>
         /\ event_queue = <<At(Signal, [tag |-> "Release", button |-> "Left"]),
                            At(Signal, [tag |-> "Press", button |-> "Left"]),
                            At(Signal, [tag |-> "Release", button |-> "Left"])>>

C3_Witness ==
    /\ ReadMouse
    /\ Signal.bstate = {3}
    /\ Signal.x = 3 /\ Signal.y = 7
    /\ Len(event_queue) = 3

\* C4: a position report (the bare flag, once the modifier bits are stripped)
\* decoded while the last button is b returns Hold(b) at the reported
\* position, queues nothing and leaves the last button b.
C4_HoldOfLastButton ==
    ReadMouse /\ Stripped(Signal.bstate) = {28} /\ pre_last # None =>
        /\ result = <<At(Signal, [tag |-> "Hold", button |-> pre_last[1]])>>
        /\ event_queue = <<>>
        /\ event_queue = pre_queue
        /\ last_mouse_button = pre_last

C4_Witness ==
    /\ ReadMouse
    /\ Stripped(Signal.bstate) = {28}
    /\ pre_last = <<"Right">>
    /\ Signal.x = 3 /\ Signal.y = 7

\* C5, as claimed: every literal character of value 1..26 is returned as
\* Ctrl with the letter 'a' - 1 + v.
C5_Original ==
    \A v \in 1..26 :
        ReadInput /\ input = <<[tag |-> "Character", c |-> v]>> =>
            result = <<[tag |-> "Key", key |-> [tag |-> "Char", c |-> 96 + v],
                        modifier |-> 1]>>

\* C5, amended: every literal character of value 1..26 other than 8, 9 and
\* 10 is returned as Ctrl with the letter 'a' - 1 + v; 8, 9 and 10 are
\* Backspace, Tab and Enter with no modifier.
C5_CtrlLetters ==
    /\ \A v \in (1..26) \ {8, 9, 10} :
         ReadInput /\ input = <<[tag |-> "Character", c |-> v]>> =>
            result = <<[tag |-> "Key", key |-> [tag |-> "Char", c |-> 96 + v],
                        modifier |-> 1]>>
    /\ \A v \in {8, 9, 10} :
         ReadInput /\ input = <<[tag |-> "Character", c |-> v]>> =>
            result = <<[tag |-> "Key",
                        key |-> [tag |-> CASE v = 8 -> "Backspace"
                                           [] v = 9 -> "Tab"
                                           [] v = 10 -> "Enter"],
                        modifier |-> 0]>>

C5_Witness ==
    /\ ReadInput
    /\ input = <<[tag |-> "Character", c |-> 26]>>
    /\ result = <<[tag |-> "Key", key |-> [tag |-> "Char", c |-> 122],
                   modifier |-> 1]>>

\* C6: the literal characters of value 0 and 27 are not returned as a
\* Ctrl-modified Key::Char; 27 is Escape with no modifier.
C6_ZeroAndEscapeExcluded ==
    /\ \A v \in {0, 27} :
         ReadInput /\ input = <<[tag |-> "Character", c |-> v]>> =>
            ~(/\ result # <<>>
              /\ result[1].tag = "Key"
              /\ result[1].key.tag = "Char"
              /\ result[1].modifier = 1)
    /\ ReadInput /\ input = <<[tag |-> "Character", c |-> 27]>> =>
         result = <<[tag |-> "Key", key |-> [tag |-> "Escape"], modifier |-> 0]>>

\* C7: a position report decoded while no last button is recorded returns
\* Unknown with an empty payload and leaves the queue and the last button
\* (none) as they were.
C7_ReportWithoutButton ==
    ReadMouse /\ Stripped(Signal.bstate) = {28} /\ pre_last = <<>> =>
        /\ result = <<[tag |-> "Unknown", bytes |-> <<>>]>>
        /\ event_queue = pre_queue
        /\ last_mouse_button = <<>>

C7_Witness ==
    /\ ReadMouse
    /\ Signal.bstate = {25, 28}
    /\ pre_last = <<>>
    /\ result = <<[tag |-> "Unknown", bytes |-> <<>>]>>

\* C8: poll_event returns None exactly when the queue was empty and getch
\* had nothing; whenever getch delivers an input, the poll returns an event.
C8_NoneOnlyWithoutInput ==
    Returned =>
        /\ result = <<>> <=> (pre_queue = <<>> /\ Called(calls, "getch") /\ input = <<>>)
        /\ Called(calls, "getch") /\ input # <<>> => Len(result) = 1

C8_Witness ==
    /\ ReadInput
    /\ input = <<[tag |-> "Unknown", code |-> -1]>>
    /\ result = <<[tag |-> "Unknown", bytes |-> <<255, 255, 255, 255>>]>>

\* The signed 32-bit integer whose little-endian bytes are b.
from_le_bytes(b) ==
    b[1] + 256 * b[2] + 65536 * b[3]
    + 16777216 * (IF b[4] >= 128 THEN b[4] - 256 ELSE b[4])

\* The code an Unknown payload was built from: the extended code the keymap
\* does not know, or the error of the mouse state query.
PayloadCodes ==
    (IF /\ ReadInput /\ input # <<>> /\ input[1].tag = "Unknown"
        /\ result[1].tag = "Unknown"
     THEN {input[1].code} ELSE {})
    \cup
    (IF ReadInput /\ mouse # <<>> /\ ~mouse[1].ok
     THEN {mouse[1].code} ELSE {})

\* C9: the Unknown payload built from a code has exactly 4 bytes, and read as
\* a little-endian signed 32-bit integer they are the code.
C9_PayloadRoundTrip ==
    \A c \in PayloadCodes :
        /\ result[1].tag = "Unknown"
        /\ Len(result[1].bytes) = 4
        /\ \A i \in 1..4 : result[1].bytes[i] \in 0..255
        /\ from_le_bytes(result[1].bytes) = c

C9_Witness ==
    /\ PayloadCodes = {-2147483647 - 1}
    /\ result[1].bytes = <<0, 0, 0, 128>>

\* The entry the keymap is to hold for a name: the marker, a mnemonic and one
\* digit of 3..7.
ClaimedDigits ==
    ("3" :> 4) @@ ("4" :> 6) @@ ("5" :> 1) @@ ("6" :> 3) @@ ("7" :> 7)

ClaimedEntries(name) ==
    {[tag |-> "Key", key |-> mnemonic_keys[m], modifier |-> ClaimedDigits[d]] :
        <<m, d>> \in {md \in (DOMAIN mnemonic_keys) \X (DOMAIN ClaimedDigits) :
                        name = <<"k">> \o md[1] \o <<md[2]>>}}

KeymapAsClaimed ==
    \A k \in 0..1100 :
        LET entries == IF k \in 512..1023 /\ k \in DOMAIN key_names
                       THEN ClaimedEntries(key_names[k]) ELSE {}
        IN /\ k \in DOMAIN key_codes <=> entries # {}
           /\ k \in DOMAIN key_codes =>
                 key_codes[k] \in entries /\ key_codes[k].modifier # 0

\* C10: whatever names the codes 512..1023 have, keymap construction
\* completes, and the map holds an entry for a code exactly when its name is
\* the marker, a mnemonic and a digit of 3..7: that key with that modifier.
C10_KeymapBuilt ==
    pc # "new" => pc = "live" /\ KeymapAsClaimed

\* What holds of the code: construction completes unless a name is the marker
\* alone, and a map that was built is as claimed.
KeymapBuiltUnlessBareMarker ==
    pc # "new" =>
        /\ pc = "panicked" <=>
              \E k \in 512..1023 : k \in DOMAIN key_names /\ key_names[k] = <<"k">>
        /\ pc = "live" => KeymapAsClaimed

----------------------------------------------------------------------------
(* The resize signal and the life of the terminal session. *)

ResizeCalls == Cardinality({i \in 1..Len(calls) : calls[i] = "resize_term"})
ReadResize == ReadInput /\ input = Some(Named("KeyResize"))

\* C11: a poll that reads the backend's resize signal returns Event::Resize
\* and calls resize_term exactly once; a poll that reads any other input, or
\* nothing, or is served from the queue, does not call it.
C11_ResizeOnce ==
    Returned =>
        /\ ReadResize => result = Some(EventResize) /\ ResizeCalls = 1
        /\ ~ReadResize => ResizeCalls = 0

C11_Witness ==
    ReadResize /\ result = Some(EventResize) /\ ResizeCalls = 1

Exited == pc \in {"panicked", "dropped", "drop_panicked"}
TornDown == pc \in {"dropped", "drop_panicked"}

\* C12: every teardown of a Window performs endwin, also when the flush of
\* the disabling sequence fails, and prints the disabling sequence before it.
C12_TeardownReachesEndwin ==
    TornDown =>
        \E i, j \in 1..Len(terminal) :
            i < j /\ terminal[i] = "print ?1002l" /\ terminal[j] = "endwin"

\* C13: once initscr has run, every way out releases the backend: when
\* construction fails on the flush of the enabling sequence, and on every
\* other exit, endwin has run by the time the program is through with the
\* window.
C13_BackendReleasedOnExit ==
    Exited /\ Called(terminal, "initscr") => Called(terminal, "endwin")

----------------------------------------------------------------------------
(* The button memory and the extended codes. *)

PressOrRelease(es) == {i \in 1..Len(es) : es[i].tag \in {"Press", "Release"}}
Decomposed == ReadMouse /\ Stripped(Signal.bstate) # REPORT_MOUSE_POSITION
Decomposition == Expansion(RecognisedBits(Stripped(Signal.bstate)))

\* C14: after a mouse signal is decoded, the last button is the button of the
\* last Press or Release among the events of its decomposition, whether that
\* event was returned or queued.
C14_LastButtonOfLastPressRelease ==
    Decomposed =>
        LET es == Decomposition
            pr == PressOrRelease(es)
        IN pr # {} =>
              LET n == CHOOSE i \in pr : \A k \in pr : k <= i
              IN last_mouse_button = Some(es[n].button)

\* What holds of the code: the last button is the button of the first event
\* of the decomposition if that is a Press or Release, and is left as it was
\* otherwise.
LastButtonOfFirstEvent ==
    Decomposed =>
        LET es == Decomposition IN
        last_mouse_button =
            IF es # <<>> /\ es[1].tag \in {"Press", "Release"}
            THEN Some(es[1].button) ELSE pre_last

ReadExtended == ReadInput /\ input # None /\ input[1].tag = "Unknown"

\* The poll returned the keymap's entry under k, or without one Unknown with
\* the 4 little-endian bytes of c.
LookedUpUnder(k, c) ==
    IF k \in DOMAIN key_codes
    THEN result = Some(key_codes[k])
    ELSE /\ result # None
         /\ result[1].tag = "Unknown"
         /\ Len(result[1].bytes) = 4
         /\ \A i \in 1..4 : result[1].bytes[i] \in 0..255
         /\ from_le_bytes(result[1].bytes) = c

\* The keymap of a live window is the one construction built.
KeymapKept == pc = "live" => key_codes = init_keymap(key_names).map

\* No step of a live window changes its keymap.
KeymapKeptByPolls == [][pc = "live" => key_codes' = key_codes]_vars

\* C15 as stated: a poll that reads extended code c returns the keymap's
\* entry under the key c, or without one Unknown with the bytes of c; polls
\* never change the keymap.
C15_Original ==
    /\ ReadExtended => LookedUpUnder(input[1].code, input[1].code)
    /\ KeymapKept

\* C15: a poll that reads extended code c returns the keymap's entry under
\* the key c + 256 + 48, or without one Unknown with the 4 little-endian
\* bytes of c; polls never change the keymap.
C15_LookupUnderOffsetCode ==
    /\ [](ReadExtended =>
            LookedUpUnder(input[1].code + 256 + 48, input[1].code))
    /\ KeymapKeptByPolls

C15_Witness ==
    /\ ReadExtended
    /\ input[1].code = 209
    /\ 513 \in DOMAIN key_codes
    /\ result = Some(key_codes[513])

----------------------------------------------------------------------------
(* Anomalous mouse signals, the modifier bits and the queue. *)

\* C16: a mouse state that, with the modifier bits stripped, is not the bare
\* position report and has no recognised bit (zero included) makes poll_event
\* return one event, Unknown with an empty payload, and leaves the queue and
\* the last button as they were.
C16_UnrecognisedState ==
    Decomposed /\ RecognisedBits(Stripped(Signal.bstate)) = {} =>
        /\ result = Some([tag |-> "Unknown", bytes |-> <<>>])
        /\ delivered = result
        /\ event_queue = pre_queue
        /\ last_mouse_button = pre_last

C16_Witness ==
    /\ Decomposed
    /\ Stripped(Signal.bstate) = {28, 29}
    /\ pre_last # None
    /\ result = Some([tag |-> "Unknown", bytes |-> <<>>])
    /\ last_mouse_button = pre_last

\* The signals that differ from sig in the modifier bits at most.
ModifierVariants(sig) ==
    {[sig EXCEPT !.bstate = Stripped(sig.bstate) \cup m] :
        m \in SUBSET ModifierBits}

MouseFields(e) ==
    e.tag = "Mouse" =>
        /\ DOMAIN e = {"tag", "pos", "event"}
        /\ DOMAIN e.event \subseteq {"tag", "button"}

\* C17: decoded from the queue and last button this poll started with, every
\* signal that differs from the one read in the Ctrl, Shift and Alt bits only
\* gives the returned event, the queue and the last button this poll gave;
\* and a Mouse event, returned or queued, has a position and an action and
\* nothing else.
C17_ModifiersIgnored ==
    ReadMouse =>
        /\ \A v \in ModifierVariants(Signal) :
              LET r == parse_mouse_event(pre_queue, pre_last, v) IN
              /\ result = Some(r.ev)
              /\ event_queue = r.queue
              /\ last_mouse_button = r.last
        /\ MouseFields(result[1])
        /\ \A i \in 1..Len(event_queue) : MouseFields(event_queue[i])

C17_Witness ==
    /\ ReadMouse
    /\ Signal.bstate = {25, 28}
    /\ pre_last = Some("Right")
    /\ result = Some(At(Signal, [tag |-> "Hold", button |-> "Right"]))

MouseFailed == ReadInput /\ mouse # None /\ ~mouse[1].ok

\* C18: when the mouse state query fails with code e, poll_event returns
\* Unknown with the 4 little-endian bytes of e, queues nothing and leaves the
\* last button as it was.
C18_QueryFailure ==
    MouseFailed =>
        /\ result # None
        /\ result[1].tag = "Unknown"
        /\ Len(result[1].bytes) = 4
        /\ \A i \in 1..4 : result[1].bytes[i] \in 0..255
        /\ from_le_bytes(result[1].bytes) = mouse[1].code
        /\ event_queue = pre_queue
        /\ last_mouse_button = pre_last

C18_Witness ==
    /\ MouseFailed
    /\ mouse[1].code = 257
    /\ pre_last # None
    /\ result = Some([tag |-> "Unknown", bytes |-> <<1, 1, 0, 0>>])

QueuedActions == {"Press", "Release", "WheelUp", "WheelDown"}

\* C19: every element of the queue is a Mouse event with a Press, Release,
\* WheelUp or WheelDown at the position of the one signal being delivered,
\* and a poll leaves the queue as it was or without its front unless it
\* decoded a mouse signal of more than one event.
C19_QueueContents ==
    pc = "live" =>
        /\ \A i \in 1..Len(event_queue) :
              /\ event_queue[i].tag = "Mouse"
              /\ event_queue[i].event.tag \in QueuedActions
              /\ HasSignal
              /\ event_queue[i].pos = <<Signal.x, Signal.y>>
        /\ Returned /\ ~(Decomposed /\ Len(Decomposition) > 1) =>
              \/ event_queue = pre_queue
              \/ pre_queue # <<>> /\ event_queue = Tail(pre_queue)

C19_Witness ==
    /\ Decomposed
    /\ Signal.x = 3 /\ Signal.y = 7
    /\ Len(Decomposition) > 2
    /\ pre_queue = <<>>
    /\ Len(event_queue) = Len(Decomposition) - 1

BareReport == ReadMouse /\ Stripped(Signal.bstate) = REPORT_MOUSE_POSITION

\* C20: the last button is none when the window is constructed, no step
\* takes it from a button back to none, and a bare position report read
\* while a button is remembered gives a Hold.
C20_ButtonMemoryKept ==
    /\ [][pc = "new" /\ pc' = "live" => last_mouse_button' = None]_vars
    /\ [][last_mouse_button # None => last_mouse_button' # None]_vars
    /\ [](BareReport /\ pre_last # None =>
            result[1].tag = "Mouse" /\ result[1].event.tag = "Hold")

C20_Witness ==
    /\ BareReport
    /\ pre_last = Some("Left")
    /\ delivered = <<At(Signal, [tag |-> "Hold", button |-> "Left"])>>
    /\ last_mouse_button = Some("Left")

====
